---- MODULE Spec2Model ----
(***************************************************************************)
(* Model of the sw_timer software timer scheduler (src/sw_timer.c).        *)
(*                                                                         *)
(* Timer records are the caller's buffers 1..NTimers; NULL is 0.  The      *)
(* record fields and the registry fields keep the names of the source.    *)
(* The physical timer behind the two registered callbacks is a down        *)
(* counter with automatic reload: set_physical_timer(n) loads n (0 stops   *)
(* it), the counter loses one per tick, and when it runs out it raises     *)
(* the interrupt and starts again from the loaded value;                   *)
(* get_physical_sw_timer_counter() reads the counter, so                   *)
(* head->time - counter is "now" in the frame of the relative times.       *)
(***************************************************************************)
EXTENDS Integers, Sequences, FiniteSets, TLC

\* ---------------------------------------------------------------- bounds
NTimers == 2
MaxPeriod == 4
MaxTick == 3
MaxOps == 5
\* the rounds of one run of the interrupt handler that are followed
MaxRounds == 8

\* ------------------------------------------------------ program constants
NULL == 0
SW_TIMER_MODE_SINGLE_SHOT == 0
SW_TIMER_MODE_REPEATING == 1
CALLBACK == 1
\* callbacks of the application that call back into the API with their
\* argument: sw_timer_start(arg), sw_timer_stop(arg)
CALLBACK_START == 2
CALLBACK_STOP == 3

Timers == 1..NTimers
Periods == 1..MaxPeriod
Modes == {SW_TIMER_MODE_SINGLE_SHOT, SW_TIMER_MODE_REPEATING}
Callbacks == {NULL, CALLBACK}
ReentrantCallbacks == {CALLBACK_START, CALLBACK_STOP}

VARIABLES
  head, set_physical_timer, get_physical_sw_timer_counter, \* private_members
  time, period, mode, callback, arg, next, prev,           \* sw_timer_t, per buffer
  created,        \* the buffers sw_timer_create has initialised
  counter, reload, irq,   \* the physical timer: counter, loaded value, interrupt raised
  fault,          \* "none", or how the program stopped: "trap" | "hang" |
                  \* "overrun" (the handler ran more than MaxRounds rounds)
  clock,          \* ticks elapsed since the program started
  nops,           \* API calls made so far
  op,             \* the last completed call: [name, timer, status]
  arms,           \* arguments of the set_physical_timer calls of the last call
  fired,          \* timers whose callback the last call invoked, in order
  startedAt,      \* tick of the last successful Start of the timer, -1 once stopped
  startOrder,     \* the timers in the order of their last successful Start
  firedAt         \* ticks at which the callback ran since that Start

vars == <<head, set_physical_timer, get_physical_sw_timer_counter,
          time, period, mode, callback, arg, next, prev, created,
          counter, reload, irq, fault, clock, nops, op, arms, fired,
          startedAt, startOrder, firedAt>>

\* uint32_t.  A value v below 2^31 is the integer v; a value v from 2^31 on
\* is the integer v - 2^32 (the same 32 bits read as two's complement), so
\* that every value fits the integers of the model checker: -10 stands for
\* 0xFFFFFFF6.  No intermediate result leaves -2^31 .. 2^31 - 1.
INT32_MAX == 2147483647
INT32_MIN == -INT32_MAX - 1

\* a + b modulo 2^32
Add32(a, b) ==
  IF a >= 0 /\ b >= 0 /\ a > INT32_MAX - b
  THEN (a - INT32_MAX - 1) + (b - INT32_MAX - 1)
  ELSE IF a < 0 /\ b < 0 /\ a < INT32_MIN - b
  THEN (a + INT32_MAX + 1) + (b + INT32_MAX + 1)
  ELSE a + b

\* -b modulo 2^32
Neg32(b) == IF b = INT32_MIN THEN INT32_MIN ELSE -b

\* a - b modulo 2^32
Sub32(a, b) == Add32(a, Neg32(b))

\* a < b and a > b as unsigned 32-bit values
Less32(a, b) == IF (a >= 0) <=> (b >= 0) THEN a < b ELSE b < 0

Greater32(a, b) == Less32(b, a)

\* 0x80000000
HIGH_BIT == INT32_MIN

SW_TIMER_STATUS_OK == "OK"
SW_TIMER_STATUS_ERROR_PHYSICAL_TIMER_CALLBACKS_NOT_REGISTERED == "NOT_REGISTERED"
SW_TIMER_STATUS_ERROR_TIMER_NOT_EXIST == "TIMER_NOT_EXIST"

\* ------------------------------------------------ statements of the program
\* The operators below transform a record s holding the registry, the timer
\* records and the physical timer; s.status is the local `status` of the
\* running API function, s.ubtrap says how this build resolves an access
\* through a null pointer: TRUE, the access traps and the program stops;
\* FALSE, the access has no effect and the function goes on.  Once s.fault
\* is set no further statement executes.

Running(s) == s.fault = "none"

NullAccess(s) == IF s.ubtrap THEN [s EXCEPT !.fault = "trap"] ELSE s

Hang(s) == [s EXCEPT !.fault = "hang"]

Overrun(s) == [s EXCEPT !.fault = "overrun"]

\* p->time = v, p->next = v, p->prev = v, this->head = v
SetTime(s, p, v) ==
  IF ~Running(s) THEN s
  ELSE IF p = NULL THEN NullAccess(s)
  ELSE [s EXCEPT !.time[p] = v]

SetNext(s, p, v) ==
  IF ~Running(s) THEN s
  ELSE IF p = NULL THEN NullAccess(s)
  ELSE [s EXCEPT !.next[p] = v]

SetPrev(s, p, v) ==
  IF ~Running(s) THEN s
  ELSE IF p = NULL THEN NullAccess(s)
  ELSE [s EXCEPT !.prev[p] = v]

SetHead(s, v) == IF ~Running(s) THEN s ELSE [s EXCEPT !.head = v]

SetStatus(s, v) == IF ~Running(s) THEN s ELSE [s EXCEPT !.status = v]

\* this->set_physical_timer(n): the counter is loaded with n and restarts
CallSetPhysicalTimer(s, n) ==
  IF ~Running(s) THEN s
  ELSE IF ~s.set_physical_timer THEN NullAccess(s)
  ELSE [s EXCEPT !.counter = n, !.reload = n, !.arms = Append(@, n)]

\* this->get_physical_sw_timer_counter(): the value read, and the call
PhysicalCounter(s) == IF s.get_physical_sw_timer_counter THEN s.counter ELSE 0

CallGetPhysicalCounter(s) ==
  IF ~Running(s) THEN s
  ELSE IF ~s.get_physical_sw_timer_counter THEN NullAccess(s)
  ELSE s

\* while (_timer) { _timer->time -= shift_time; _timer = _timer->next; }
\* More than NTimers rounds means the chain is cyclic: the loop never ends.
RECURSIVE RebaseLoop(_, _, _, _)
RebaseLoop(s, timer, shift_time, fuel) ==
  IF ~Running(s) \/ timer = NULL THEN s
  ELSE IF fuel = 0 THEN Hang(s)
  ELSE RebaseLoop(SetTime(s, timer, Sub32(s.time[timer], shift_time)),
                  s.next[timer], shift_time, fuel - 1)

\* ((timer->time + delta) && 0x80000000) != 0: && is the logical and, so the
\* test is true exactly when the 32-bit sum is not zero
NeedRebase(sum) == (sum # 0 /\ HIGH_BIT # 0)

\* the rebase pass: shift_time = head->time - counter, then the loop
RebaseChain(s) ==
  IF s.head = NULL THEN NullAccess(s)
  ELSE RebaseLoop(CallGetPhysicalCounter(s), s.head,
                  Sub32(s.time[s.head], PhysicalCounter(s)), NTimers)

\* timer->time += delta
AddDelta(s, timer, delta) == SetTime(s, timer, Add32(s.time[timer], delta))

sw_timer_update_relative_time(s, timer, delta) ==
  IF ~Running(s) THEN s
  ELSE IF NeedRebase(Add32(s.time[timer], delta))
  THEN AddDelta(RebaseChain(s), timer, delta)
  ELSE AddDelta(s, timer, delta)

\* timer->prev->next = new_timer; timer->prev = new_timer;
LinkAfterPrev(s, timer, new_timer) ==
  SetPrev(SetNext(s, s.prev[timer], new_timer), timer, new_timer)

\* the branch of sw_timer_insert that puts new_timer before timer
InsertBefore(s, timer, new_timer) ==
  LinkAfterPrev(SetPrev(SetNext(s, new_timer, timer), new_timer, s.prev[timer]),
                timer, new_timer)

\* the branch of sw_timer_insert that appends new_timer after the tail
InsertAtTail(s, timer, new_timer) ==
  SetPrev(SetNext(SetNext(s, timer, new_timer), new_timer, NULL),
          new_timer, timer)

\* the loop of sw_timer_insert; scanning changes nothing, so a round beyond
\* NTimers is a round on a node already seen: the loop never ends
RECURSIVE InsertLoop(_, _, _, _)
InsertLoop(s, timer, new_timer, fuel) ==
  IF ~Running(s) \/ timer = NULL THEN s
  ELSE IF new_timer = NULL THEN NullAccess(s)
  ELSE IF Less32(s.time[new_timer], s.time[timer])
  THEN InsertBefore(s, timer, new_timer)
  ELSE IF s.next[timer] = NULL THEN InsertAtTail(s, timer, new_timer)
  ELSE IF fuel = 0 THEN Hang(s)
  ELSE InsertLoop(s, s.next[timer], new_timer, fuel - 1)

sw_timer_insert(s, timer, new_timer) == InsertLoop(s, timer, new_timer, NTimers)

\* sw_timer_start on the empty chain, arming one tick more than the period
StartOnEmptyLate(s, timer) ==
  IF s.set_physical_timer
  THEN CallSetPhysicalTimer(s, Add32(s.period[s.head], 1))
  ELSE SetStatus(s, SW_TIMER_STATUS_ERROR_PHYSICAL_TIMER_CALLBACKS_NOT_REGISTERED)

\* sw_timer_start, the chain is empty: the timer becomes the head
StartOnEmpty(s, timer) ==
  IF s.set_physical_timer
  THEN CallSetPhysicalTimer(s, s.period[s.head])
  ELSE SetStatus(s, SW_TIMER_STATUS_ERROR_PHYSICAL_TIMER_CALLBACKS_NOT_REGISTERED)

\* timer->next = head; head->prev = timer; head = timer;
PushFront(s, timer) ==
  SetHead(SetPrev(SetNext(s, timer, s.head), s.head, timer), timer)

\* sw_timer_start, the chain is not empty, after the relative time is set
StartPlace(s, timer) ==
  IF ~Running(s) THEN s
  ELSE IF Less32(s.time[timer], s.time[s.head])
  THEN PushFront(
         CallSetPhysicalTimer(s,
           Sub32(s.time[timer], Sub32(s.time[s.head], PhysicalCounter(s)))),
         timer)
  ELSE sw_timer_insert(s, s.next[s.head], timer)

sw_timer_start(s, timer) ==
  IF timer = NULL THEN SetStatus(s, SW_TIMER_STATUS_ERROR_TIMER_NOT_EXIST)
  ELSE IF s.head = NULL
  THEN StartOnEmpty(SetTime(SetHead(s, timer), timer, s.period[timer]), timer)
  ELSE IF s.set_physical_timer /\ s.get_physical_sw_timer_counter
  THEN StartPlace(
         sw_timer_update_relative_time(s, timer,
           Add32(Sub32(s.time[s.head], PhysicalCounter(s)), s.period[timer])),
         timer)
  ELSE SetStatus(s, SW_TIMER_STATUS_ERROR_PHYSICAL_TIMER_CALLBACKS_NOT_REGISTERED)

\* this->head = this->head->next; this->head->prev = NULL;
AdvanceHead(s, successor) == SetPrev(SetHead(s, successor), successor, NULL)

\* sw_timer_stop of the head that has a successor
StopHeadWithNext(s, timer) ==
  SetNext(
    SetTime(
      AdvanceHead(
        CallSetPhysicalTimer(CallGetPhysicalCounter(s),
          Sub32(s.time[s.next[s.head]],
                Sub32(s.time[s.head], PhysicalCounter(s)))),
        s.next[s.head]),
      timer, 0),
    timer, NULL)

\* sw_timer_stop of the head that has no successor
StopLastHead(s) ==
  CallSetPhysicalTimer(SetHead(SetTime(s, s.head, 0), NULL), 0)

\* timer->next->prev = timer->prev; timer->prev->next = timer->next;
Bypass(s, timer) ==
  SetNext(SetPrev(s, s.next[timer], s.prev[timer]), s.prev[timer], s.next[timer])

\* sw_timer_stop of a timer that is not the head, after timer->time = 0
StopNotHead(s, timer) ==
  IF s.next[timer] # NULL
  THEN SetNext(SetPrev(Bypass(s, timer), timer, NULL), timer, NULL)
  ELSE SetPrev(SetNext(s, s.prev[timer], NULL), timer, NULL)

\* sw_timer_stop without the status for the null handle
sw_timer_stop_null_ok(s, timer) ==
  IF timer = NULL THEN s
  ELSE IF s.head = NULL THEN s
  ELSE IF s.head = timer
  THEN IF s.next[s.head] # NULL THEN StopHeadWithNext(s, timer)
       ELSE StopLastHead(s)
  ELSE StopNotHead(SetTime(s, timer, 0), timer)

sw_timer_stop(s, timer) ==
  IF timer = NULL THEN SetStatus(s, SW_TIMER_STATUS_ERROR_TIMER_NOT_EXIST)
  ELSE IF s.head = NULL THEN s
  ELSE IF s.head = timer
  THEN IF s.next[s.head] # NULL THEN StopHeadWithNext(s, timer)
       ELSE StopLastHead(s)
  ELSE StopNotHead(SetTime(s, timer, 0), timer)

\* the parameter assignments of sw_timer_update (and of sw_timer_create)
SetParameters(s, timer, p, m, cb, a) ==
  IF ~Running(s) THEN s
  ELSE [s EXCEPT !.period[timer] = p, !.mode[timer] = m,
                 !.callback[timer] = cb, !.arg[timer] = a]

\* sw_timer_update up to its return; s.status is then what the inner
\* sw_timer_stop and sw_timer_start left, which sw_timer_update discards
UpdateBody(s, timer, p, m, cb, a) ==
  IF s.time[timer] = 0 THEN SetParameters(s, timer, p, m, cb, a)
  ELSE sw_timer_start(
         SetParameters(sw_timer_stop(s, timer), timer, p, m, cb, a), timer)

sw_timer_update(s, timer, p, m, cb, a) ==
  IF timer = NULL THEN SetStatus(s, SW_TIMER_STATUS_ERROR_TIMER_NOT_EXIST)
  ELSE SetStatus(UpdateBody(s, timer, p, m, cb, a), SW_TIMER_STATUS_OK)

\* what one round of the handler's loop depends on
LoopState(s) == <<s.head, s.time, s.next, s.prev, s.counter, s.reload>>

\* the single-shot branch of the handler, after head->time = 0
DetachHead(s, h) ==
  IF s.next[h] # NULL
  THEN AdvanceHead(SetNext(s, h, NULL), s.next[h])
  ELSE SetHead(s, NULL)

\* this->head = this->head->next; sw_timer_insert(this->head, this->head->prev);
\* this->head->prev = NULL;
DemoteHead(s, h) ==
  IF Running(s) /\ s.next[h] # NULL /\ Greater32(s.time[h], s.time[s.next[h]])
  THEN SetPrev(sw_timer_insert(SetHead(s, s.next[h]), s.next[h], s.prev[s.next[h]]),
               s.next[h], NULL)
  ELSE s

\* the branch on the head's mode (an unknown mode fails the assert; Modes
\* holds the two modes of the enum)
ExpireHead(s, h) ==
  IF s.mode[h] = SW_TIMER_MODE_SINGLE_SHOT
  THEN DetachHead(SetTime(s, h, 0), h)
  ELSE DemoteHead(sw_timer_update_relative_time(s, h, s.period[h]), h)

\* start the physical timer for the next shortest time, or stop it
Reprogram(s, time0) ==
  IF ~Running(s) THEN s
  ELSE IF s.head # NULL
  THEN IF s.time[s.head] # time0
       THEN CallSetPhysicalTimer(s, Sub32(s.time[s.head], time0))
       ELSE s
  ELSE CallSetPhysicalTimer(s, 0)

\* the body of the callback cb run with the argument a; the status that the
\* API call inside it returns is discarded
Called(s, r, name, a) ==
  [r EXCEPT !.status = s.status,
            !.calls = Append(@, [name |-> name, timer |-> a, status |-> r.status])]

CallbackBody(s, cb, a) ==
  IF cb = CALLBACK_START THEN Called(s, sw_timer_start(s, a), "start", a)
  ELSE IF cb = CALLBACK_STOP THEN Called(s, sw_timer_stop(s, a), "stop", a)
  ELSE s

\* if (callback != NULL) callback(arg);  h is the record that expired
RunCallback(s, cb, a, h) ==
  IF Running(s) /\ cb # NULL
  THEN CallbackBody([s EXCEPT !.fired = Append(@, h)], cb, a)
  ELSE s

\* the body of the while loop of sw_timer_interrupt_handler
HandlerRound(s, time0) ==
  RunCallback(Reprogram(ExpireHead(s, s.head), time0),
              s.callback[s.head], s.arg[s.head], s.head)

\* while (this->head && (this->head->time == time)) { ... }
\* A round that starts in a state an earlier round started in repeats it
\* for ever: the handler never returns.  A handler still running after
\* MaxRounds rounds, more than the records of the chain, is followed no
\* further.
RECURSIVE HandlerLoop(_, _, _)
HandlerLoop(s, time0, seen) ==
  IF ~Running(s) \/ s.head = NULL THEN s
  ELSE IF s.time[s.head] # time0 THEN s
  ELSE IF LoopState(s) \in seen THEN Hang(s)
  ELSE IF Cardinality(seen) >= MaxRounds THEN Overrun(s)
  ELSE HandlerLoop(HandlerRound(s, time0), time0, seen \cup {LoopState(s)})

sw_timer_interrupt_handler(s) ==
  IF s.head = NULL THEN NullAccess(s)
  ELSE HandlerLoop(s, s.time[s.head], {})

\* ------------------------------------------------------------ the machine
Current(trap) ==
  [head |-> head, set_physical_timer |-> set_physical_timer,
   get_physical_sw_timer_counter |-> get_physical_sw_timer_counter,
   time |-> time, period |-> period, mode |-> mode, callback |-> callback,
   arg |-> arg, calls |-> <<>>,
   next |-> next, prev |-> prev, counter |-> counter, reload |-> reload,
   fault |-> "none", status |-> SW_TIMER_STATUS_OK,
   arms |-> <<>>, fired |-> <<>>, ubtrap |-> trap]

\* the program state after a call that ended in r
Store(r) ==
  /\ head' = r.head
  /\ time' = r.time
  /\ period' = r.period
  /\ mode' = r.mode
  /\ callback' = r.callback
  /\ arg' = r.arg
  /\ next' = r.next
  /\ prev' = r.prev
  /\ counter' = r.counter
  /\ reload' = r.reload
  /\ fault' = r.fault
  /\ arms' = r.arms
  /\ fired' = r.fired

Idle == fault = "none" /\ ~irq

\* seq without the entries equal to x
Without(seq, x) == SelectSeq(seq, LAMBDA y : y # x)

\* the ways a call can end: r is how it ends in a build where a null access
\* traps; if it did trap, the call can also go on past the access
Outcomes(r, goOn) == IF r.fault = "trap" THEN {r, goOn} ELSE {r}

Init ==
  /\ head = NULL
  /\ set_physical_timer = FALSE
  /\ get_physical_sw_timer_counter = FALSE
  /\ time = [t \in Timers |-> 0]
  /\ period = [t \in Timers |-> 0]
  /\ mode = [t \in Timers |-> SW_TIMER_MODE_SINGLE_SHOT]
  /\ callback = [t \in Timers |-> NULL]
  /\ arg = [t \in Timers |-> NULL]
  /\ next = [t \in Timers |-> NULL]
  /\ prev = [t \in Timers |-> NULL]
  /\ created = {}
  /\ counter = 0
  /\ reload = 0
  /\ irq = FALSE
  /\ fault = "none"
  /\ clock = 0
  /\ nops = 0
  /\ op = [name |-> "init", timer |-> NULL, status |-> SW_TIMER_STATUS_OK]
  /\ arms = <<>>
  /\ fired = <<>>
  /\ startedAt = [t \in Timers |-> -1]
  /\ startOrder = <<>>
  /\ firedAt = [t \in Timers |-> <<>>]

\* the program starts with both callbacks registered
InitRegistered ==
  \E i \in {1} :
    /\ head = NULL
    /\ set_physical_timer = TRUE
    /\ get_physical_sw_timer_counter = TRUE
    /\ time = [t \in Timers |-> 0]
    /\ period = [t \in Timers |-> 0]
    /\ mode = [t \in Timers |-> SW_TIMER_MODE_SINGLE_SHOT]
    /\ callback = [t \in Timers |-> NULL]
    /\ arg = [t \in Timers |-> NULL]
    /\ next = [t \in Timers |-> NULL]
    /\ prev = [t \in Timers |-> NULL]
    /\ created = {}
    /\ counter = 0
    /\ reload = 0
    /\ irq = FALSE
    /\ fault = "none"
    /\ clock = 0
    /\ nops = 0
    /\ op = [name |-> "register", timer |-> NULL, status |-> SW_TIMER_STATUS_OK]
    /\ arms = <<>>
    /\ fired = <<>>
    /\ startedAt = [t \in Timers |-> -1]
    /\ startOrder = <<>>
    /\ firedAt = [t \in Timers |-> <<>>]

RegisterAdapter(set, get) ==
  /\ Idle /\ nops < MaxOps
  /\ set_physical_timer' = set
  /\ get_physical_sw_timer_counter' = get
  /\ nops' = nops + 1
  /\ op' = [name |-> "register", timer |-> NULL, status |-> SW_TIMER_STATUS_OK]
  /\ arms' = <<>>
  /\ fired' = <<>>
  /\ UNCHANGED <<head, time, period, mode, callback, arg, next, prev,
                 created, counter, reload, irq, fault, clock, startedAt,
                 startOrder, firedAt>>

Create(t, p, m, cb, a) ==
  /\ Idle /\ nops < MaxOps
  /\ t \notin created
  /\ created' = created \cup {t}
  /\ time' = [time EXCEPT ![t] = 0]
  /\ period' = [period EXCEPT ![t] = p]
  /\ mode' = [mode EXCEPT ![t] = m]
  /\ callback' = [callback EXCEPT ![t] = cb]
  /\ arg' = [arg EXCEPT ![t] = a]
  /\ next' = [next EXCEPT ![t] = NULL]
  /\ prev' = [prev EXCEPT ![t] = NULL]
  /\ nops' = nops + 1
  /\ op' = [name |-> "create", timer |-> t, status |-> SW_TIMER_STATUS_OK]
  /\ arms' = <<>>
  /\ fired' = <<>>
  /\ UNCHANGED <<head, set_physical_timer, get_physical_sw_timer_counter,
                 counter, reload, irq, fault, clock, startedAt, startOrder,
                 firedAt>>

Handles == created \cup {NULL}

Start(t) ==
  /\ Idle /\ nops < MaxOps
  /\ t \in Handles
  /\ \E r \in Outcomes(sw_timer_start(Current(TRUE), t),
                       sw_timer_start(Current(FALSE), t)) :
        /\ Store(r)
        /\ op' = [name |-> "start", timer |-> t, status |-> r.status]
        /\ IF t # NULL /\ r.status = SW_TIMER_STATUS_OK /\ Running(r)
           THEN /\ startedAt' = [startedAt EXCEPT ![t] = clock]
                /\ startOrder' = Append(Without(startOrder, t), t)
                /\ firedAt' = [firedAt EXCEPT ![t] = <<>>]
           ELSE UNCHANGED <<startedAt, startOrder, firedAt>>
  /\ nops' = nops + 1
  /\ UNCHANGED <<set_physical_timer, get_physical_sw_timer_counter, created,
                 irq, clock>>

Stop(t) ==
  /\ Idle /\ nops < MaxOps
  /\ t \in Handles
  /\ \E r \in Outcomes(sw_timer_stop(Current(TRUE), t),
                       sw_timer_stop(Current(FALSE), t)) :
        /\ Store(r)
        /\ op' = [name |-> "stop", timer |-> t, status |-> r.status]
        /\ IF t # NULL
           THEN startedAt' = [startedAt EXCEPT ![t] = -1]
           ELSE UNCHANGED startedAt
  /\ nops' = nops + 1
  /\ UNCHANGED <<set_physical_timer, get_physical_sw_timer_counter, created,
                 irq, clock, startOrder, firedAt>>

Update(t, p, m, cb, a) ==
  /\ Idle /\ nops < MaxOps
  /\ t \in Handles
  /\ \E r \in Outcomes(sw_timer_update(Current(TRUE), t, p, m, cb, a),
                       sw_timer_update(Current(FALSE), t, p, m, cb, a)) :
      LET inner == UpdateBody(Current(r.ubtrap), t, p, m, cb, a)
      IN
        /\ Store(r)
        /\ op' = [name |-> "update", timer |-> t, status |-> r.status]
        /\ IF t = NULL THEN UNCHANGED <<startedAt, startOrder, firedAt>>
           ELSE IF time[t] # 0 /\ Running(inner)
                   /\ inner.status = SW_TIMER_STATUS_OK
           THEN /\ startedAt' = [startedAt EXCEPT ![t] = clock]
                /\ startOrder' = Append(Without(startOrder, t), t)
                /\ firedAt' = [firedAt EXCEPT ![t] = <<>>]
           ELSE /\ startedAt' = [startedAt EXCEPT ![t] = -1]
                /\ UNCHANGED <<startOrder, firedAt>>
  /\ nops' = nops + 1
  /\ UNCHANGED <<set_physical_timer, get_physical_sw_timer_counter, created,
                 irq, clock>>

\* one tick of the physical counter
Tick ==
  /\ Idle /\ clock < MaxTick
  /\ clock' = clock + 1
  /\ IF counter = 0 THEN UNCHANGED <<counter, irq>>
     ELSE IF counter = 1 THEN counter' = reload /\ irq' = TRUE
     ELSE counter' = Sub32(counter, 1) /\ irq' = FALSE
  /\ UNCHANGED <<head, set_physical_timer, get_physical_sw_timer_counter,
                 time, period, mode, callback, arg, next, prev, created,
                 reload, fault, nops, op, arms, fired, startedAt, startOrder, firedAt>>

RECURSIVE Occurrences(_, _)
Occurrences(seq, t) ==
  IF seq = <<>> THEN 0
  ELSE (IF Head(seq) = t THEN 1 ELSE 0) + Occurrences(Tail(seq), t)

RECURSIVE Repeat(_, _)
Repeat(x, n) == IF n = 0 THEN <<>> ELSE <<x>> \o Repeat(x, n - 1)

\* what the callbacks of one interrupt did last to the timer t: "start" (a
\* Start that returned Ok), "stop", or "none"
LastCallOn(calls, t) ==
  IF \A i \in 1..Len(calls) : calls[i].timer # t THEN "none"
  ELSE IF calls[CHOOSE i \in 1..Len(calls) :
                  /\ calls[i].timer = t
                  /\ \A j \in (i + 1)..Len(calls) : calls[j].timer # t].name = "stop"
  THEN "stop"
  ELSE IF calls[CHOOSE i \in 1..Len(calls) :
                  /\ calls[i].timer = t
                  /\ \A j \in (i + 1)..Len(calls) : calls[j].timer # t].status
            = SW_TIMER_STATUS_OK
  THEN "start"
  ELSE "none"

\* the order of the last Starts after the calls made by the callbacks
RECURSIVE OrderAfter(_, _)
OrderAfter(order, calls) ==
  IF calls = <<>> THEN order
  ELSE IF Head(calls).name = "start" /\ Head(calls).status = SW_TIMER_STATUS_OK
          /\ Head(calls).timer # NULL
  THEN OrderAfter(Append(Without(order, Head(calls).timer), Head(calls).timer),
                  Tail(calls))
  ELSE OrderAfter(order, Tail(calls))

\* the physical timer's interrupt, taken as soon as it is raised
OnInterrupt ==
  /\ fault = "none" /\ irq
  /\ irq' = FALSE
  /\ \E r \in Outcomes(sw_timer_interrupt_handler(Current(TRUE)),
                       sw_timer_interrupt_handler(Current(FALSE))) :
        /\ Store(r)
        /\ firedAt' = [t \in Timers |->
                         IF LastCallOn(r.calls, t) = "start" THEN <<>>
                         ELSE firedAt[t] \o Repeat(clock, Occurrences(r.fired, t))]
        /\ startedAt' = [t \in Timers |->
                           IF LastCallOn(r.calls, t) = "start" THEN clock
                           ELSE IF LastCallOn(r.calls, t) = "stop" THEN -1
                           ELSE startedAt[t]]
        /\ startOrder' = OrderAfter(startOrder, r.calls)
  /\ op' = [name |-> "interrupt", timer |-> NULL, status |-> SW_TIMER_STATUS_OK]
  /\ UNCHANGED <<set_physical_timer, get_physical_sw_timer_counter, created,
                 clock, nops>>

\* the argument the application gives with the callback cb of the timer t:
\* none with no callback, the timer's own handle with a callback
ArgOf(cb, t) == IF cb = NULL THEN NULL ELSE t

Operations ==
  \/ \E t \in Timers, p \in Periods, m \in Modes, cb \in Callbacks :
       Create(t, p, m, cb, ArgOf(cb, t))
  \/ \E t \in Timers \cup {NULL} : Start(t)
  \/ \E t \in Timers \cup {NULL} : Stop(t)
  \/ \E t \in Timers, p \in Periods, m \in Modes, cb \in Callbacks :
       Update(t, p, m, cb, ArgOf(cb, t))
  \/ \E p \in Periods :
       Update(NULL, p, SW_TIMER_MODE_REPEATING, CALLBACK, NULL)
  \/ Tick
  \/ OnInterrupt

Next ==
  \/ \E set \in BOOLEAN, get \in BOOLEAN : RegisterAdapter(set, get)
  \/ Operations

Spec == Init /\ [][Next]_vars

\* the program that registers both callbacks before anything else
SpecRegistered == InitRegistered /\ [][Operations]_vars

\* the calls of a program whose callbacks call sw_timer_start or
\* sw_timer_stop with their argument, the handle of a timer
OperationsReentrant ==
  \/ \E t \in Timers, p \in Periods, m \in Modes, cb \in ReentrantCallbacks :
       \E a \in created \cup {t} : Create(t, p, m, cb, a)
  \/ \E t \in Timers : Start(t)
  \/ \E t \in Timers : Stop(t)
  \/ Tick
  \/ OnInterrupt

SpecReentrant == InitRegistered /\ [][OperationsReentrant]_vars

\* the state after both callbacks are registered and every timer has been
\* created, with any period and mode
InitCreated ==
  \E ps \in [Timers -> Periods], ms \in [Timers -> Modes] :
    /\ head = NULL
    /\ set_physical_timer = TRUE
    /\ get_physical_sw_timer_counter = TRUE
    /\ time = [t \in Timers |-> 0]
    /\ period = ps
    /\ mode = ms
    /\ callback = [t \in Timers |-> CALLBACK]
    /\ arg = [t \in Timers |-> t]
    /\ next = [t \in Timers |-> NULL]
    /\ prev = [t \in Timers |-> NULL]
    /\ created = Timers
    /\ counter = 0
    /\ reload = 0
    /\ irq = FALSE
    /\ fault = "none"
    /\ clock = 0
    /\ nops = 0
    /\ op = [name |-> "create", timer |-> NULL, status |-> SW_TIMER_STATUS_OK]
    /\ arms = <<>>
    /\ fired = <<>>
    /\ startedAt = [t \in Timers |-> -1]
    /\ startOrder = <<>>
    /\ firedAt = [t \in Timers |-> <<>>]

\* the calls of a program that only starts and stops its timers
OperationsCreated ==
  \/ \E t \in Timers : Start(t)
  \/ \E t \in Timers : Stop(t)
  \/ Tick
  \/ OnInterrupt

SpecCreated == InitCreated /\ [][OperationsCreated]_vars

TypeOK ==
  /\ head \in Timers \cup {NULL}
  /\ fault \in {"none", "trap", "hang", "overrun"}
  /\ \A t \in Timers : next[t] \in Timers \cup {NULL} /\ prev[t] \in Timers \cup {NULL}
  /\ \A t \in Timers : mode[t] \in Modes
  /\ \A t \in Timers : callback[t] \in Callbacks \cup ReentrantCallbacks
  /\ \A t \in Timers : arg[t] \in Timers \cup {NULL}

\* ------------------------------------------------------------- the chain
\* the records met from t along next, at most n of them
RECURSIVE ChainFrom(_, _)
ChainFrom(t, n) ==
  IF t = NULL \/ n = 0 THEN <<>> ELSE <<t>> \o ChainFrom(next[t], n - 1)

\* the pending chain from the registry head (NTimers + 1 records: a cycle)
Chain == ChainFrom(head, NTimers + 1)

InChain(t) == \E i \in 1..Len(Chain) : Chain[i] = t

\* a call has completed and the program is running
Settled == fault = "none" /\ ~irq

\* ------------------------------------------------------------- the claims

\* C1: with the adapter registered and periods >= 1, after any sequence of
\* calls a created record is reachable from the head if and only if its
\* relative time is not zero (so a Start that returns Ok never drops the timer)
C1_InChainIffTimeNonZero ==
  Settled => \A t \in created : InChain(t) <=> time[t] # 0

\* C2: traversing the chain from the head yields non-decreasing relative times
C2_ChainSorted ==
  Settled => \A i \in 1..(Len(Chain) - 1) :
               ~Less32(time[Chain[i + 1]], time[Chain[i]])

\* --------------------------------------------- the reference of deadlines
\* a timer whose callback is set and that a Start made pending at startedAt
Tracked(t) == t \in created /\ startedAt[t] >= 0 /\ callback[t] # NULL

\* the ticks up to now at which the callback of a tracked timer is due
DueTicks(t) ==
  IF mode[t] = SW_TIMER_MODE_SINGLE_SHOT
  THEN IF startedAt[t] + period[t] <= clock
       THEN <<startedAt[t] + period[t]>> ELSE <<>>
  ELSE [i \in 1..((clock - startedAt[t]) \div period[t]) |->
          startedAt[t] + i * period[t]]

\* the timer is due at the present tick
DueNow(t) ==
  /\ t \in created /\ startedAt[t] >= 0 /\ clock > startedAt[t]
  /\ IF mode[t] = SW_TIMER_MODE_SINGLE_SHOT
     THEN clock = startedAt[t] + period[t]
     ELSE (clock - startedAt[t]) % period[t] = 0

\* the tick of the next deadline of a started timer, after the present tick
NextDue(t) ==
  IF mode[t] = SW_TIMER_MODE_SINGLE_SHOT
  THEN startedAt[t] + period[t]
  ELSE startedAt[t] + period[t] * (((clock - startedAt[t]) \div period[t]) + 1)

Index(seq, t) == CHOOSE i \in 1..Len(seq) : seq[i] = t

InSeq(seq, t) == \E i \in 1..Len(seq) : seq[i] = t

\* the last successful Start of a precedes that of b
StartedBefore(a, b) ==
  /\ InSeq(startOrder, a) /\ InSeq(startOrder, b)
  /\ Index(startOrder, a) < Index(startOrder, b)


\* C3: a single-shot timer started once has its callback invoked exactly
\* once, by the interrupt at its deadline, and is then out of the chain with
\* relative time 0
C3_SingleShotFiresOnce ==
  Settled =>
    \A t \in Timers :
      (Tracked(t) /\ mode[t] = SW_TIMER_MODE_SINGLE_SHOT) =>
        /\ firedAt[t] = DueTicks(t)
        /\ (clock >= startedAt[t] + period[t]) => (~InChain(t) /\ time[t] = 0)

\* C4: a repeating timer with period P started at tick T and never stopped
\* has its callback invoked at exactly the ticks T+P, T+2P, ...
C4_RepeatingFiresEveryPeriod ==
  Settled =>
    \A t \in Timers :
      (Tracked(t) /\ mode[t] = SW_TIMER_MODE_REPEATING) =>
        firedAt[t] = DueTicks(t)

\* C5: one interrupt invokes the callback of every timer due at that tick
\* and of no other timer, and of two timers at their first deadline the one
\* started first is invoked first
C5_TiesFireTogetherInOrder ==
  [][(irq /\ ~irq' /\ fault' = "none") =>
       (/\ \A t \in Timers :
            (Tracked(t) /\ DueNow(t)) => InSeq(fired, t)
        /\ \A t \in Timers : InSeq(fired, t) => DueNow(t)
        /\ \A a, b \in Timers :
             (/\ Tracked(a) /\ Tracked(b) /\ StartedBefore(a, b)
              /\ clock = startedAt[a] + period[a]
              /\ clock = startedAt[b] + period[b]
              /\ InSeq(fired, a) /\ InSeq(fired, b))
             => Index(fired, a) < Index(fired, b))']_vars

\* the ticks that remain until the deadline of the head
HeadRemaining == NextDue(head) - clock

\* a step that is a completed Start or Stop
StartOrStopStep ==
  nops' = nops + 1 /\ op'.name \in {"start", "stop"} /\ fault' = "none"

\* C6: a Start or Stop that changes the head and leaves the chain non-empty
\* arms exactly once, with the ticks that remain until the new head's
\* deadline; a Start or Stop that leaves the head alone does not arm
C6_ArmOnHeadChange ==
  [][StartOrStopStep =>
       /\ (head' # head /\ head' # NULL) =>
            arms' = <<HeadRemaining'>>
       /\ (head' = head) => arms' = <<>>]_vars

\* C7: after every completed call the hardware is disarmed if and only if
\* the chain is empty
C7_DisarmedIffEmpty ==
  Settled => (reload = 0 <=> head = NULL)

\* C8: whenever the chain is non-empty after a completed call, the head's
\* relative time equals the value the hardware was last armed with
C8_HeadTimeIsArmedValue ==
  (Settled /\ head # NULL) => time[head] = reload

\* C9: the chain is a well-formed doubly-linked list: the head has no prev,
\* next and prev agree, no record occurs twice, and a record outside the
\* chain has neither next nor prev
C9_ChainWellFormed ==
  Settled =>
    /\ Len(Chain) <= NTimers
    /\ \A i, j \in 1..Len(Chain) : Chain[i] = Chain[j] => i = j
    /\ head # NULL => prev[head] = NULL
    /\ \A a \in Timers :
         (InChain(a) /\ next[a] # NULL) => prev[next[a]] = a
    /\ \A a \in created :
         ~InChain(a) => (next[a] = NULL /\ prev[a] = NULL)

\* a step that is a Stop of the created record t
StopStep(t) == nops' = nops + 1 /\ op' = [op' EXCEPT !.name = "stop", !.timer = t]

\* C10: Stop of any created record returns Ok and leaves the record out of
\* the chain with relative time 0; if the record was not pending, the chain,
\* every other record and the hardware are left as they were
C10_StopAlwaysStops ==
  [][\A t \in Timers :
       StopStep(t) =>
         /\ fault' = "none"
         /\ op'.status = SW_TIMER_STATUS_OK
         /\ ~(InChain(t))' /\ time'[t] = 0
         /\ ~InChain(t) =>
              /\ head' = head /\ next' = next /\ prev' = prev
              /\ \A u \in Timers \ {t} : time'[u] = time[u]
              /\ counter' = counter /\ reload' = reload /\ arms' = <<>>]_vars

\* C8 as amended: whenever a completed call makes the empty chain non-empty
\* (a Start, or the Start inside Update, with the adapter registered), the
\* call arms the hardware exactly once, with the period of the record, and
\* the relative time of the new head equals that armed value
C8_HeadTimeIsArmedValueOnFirstStart ==
  [][(head = NULL /\ head' # NULL /\ fault' = "none") =>
       /\ arms' = <<period'[head']>>
       /\ reload' = period'[head']
       /\ time'[head'] = reload']_vars

\* a Start on the empty chain has completed and the record is the head
C8_Witness ==
  /\ Settled /\ op.name = "start" /\ op.status = SW_TIMER_STATUS_OK
  /\ head # NULL /\ head = op.timer /\ next[head] = NULL
  /\ arms = <<period[head]>> /\ time[head] = reload /\ counter = reload

\* ------------------------------------------------- restart of a pending timer
\* a step that is a Start of the created record t
StartStep(t) == nops' = nops + 1 /\ op' = [op' EXCEPT !.name = "start", !.timer = t]

\* the ticks that remain, by the relative times, until the deadline of t
Remaining(t) == Sub32(time[t], Sub32(time[head], counter))

\* C11: Start on a record that is already pending restarts it: afterwards
\* the record occurs exactly once in the chain, its deadline is one period
\* after this Start, the chain is sorted and well linked without a cycle,
\* and the hardware is armed for the soonest deadline
C11_RestartPending ==
  [][\A t \in Timers :
       (StartStep(t) /\ InChain(t)) =>
         /\ fault' = "none" /\ op'.status = SW_TIMER_STATUS_OK
         /\ Len(Chain') <= NTimers
         /\ Cardinality({i \in 1..Len(Chain') : Chain'[i] = t}) = 1
         /\ head' # NULL /\ prev'[head'] = NULL
         /\ \A a \in Timers :
              ((InChain(a))' /\ next'[a] # NULL) => prev'[next'[a]] = a
         /\ \A i \in 1..(Len(Chain') - 1) :
              ~Less32(time'[Chain'[i + 1]], time'[Chain'[i]])
         /\ (Remaining(t))' = period[t]
         /\ \A a \in Timers :
              (InChain(a))' => ~Less32((Remaining(a))', counter')
         /\ counter' = (Remaining(head))']_vars

\* ------------------------------------------------- update of a pending timer
\* a step that is an Update of the created record t
UpdateStep(t) == nops' = nops + 1 /\ op' = [op' EXCEPT !.name = "update", !.timer = t]

\* C12: Update at tick U of a pending timer with the new period P returns
\* Ok and leaves the timer pending with the new period, mode, callback and
\* argument, its next deadline at U + P; every other pending timer stays
\* pending with its deadline
C12_UpdatePending ==
  [][\A t \in Timers, p \in Periods, m \in Modes, cb \in Callbacks :
       (UpdateStep(t) /\ InChain(t) /\ Update(t, p, m, cb, ArgOf(cb, t))) =>
         /\ fault' = "none" /\ op'.status = SW_TIMER_STATUS_OK
         /\ period'[t] = p /\ mode'[t] = m
         /\ callback'[t] = cb /\ arg'[t] = ArgOf(cb, t)
         /\ (InChain(t))'
         /\ (Remaining(t))' = p
         /\ \A u \in Timers \ {t} :
              InChain(u) => ((InChain(u))' /\ (Remaining(u))' = Remaining(u))]_vars

\* ------------------------------------------------- the adapter is missing
\* C13: with set_physical_timer or get_physical_sw_timer_counter not
\* registered, Start of a created record returns the not-registered status
\* and leaves the head, the chain and the record's time and links unchanged
C13_StartWithoutAdapter ==
  [][\A t \in Timers :
       (StartStep(t) /\ ~(set_physical_timer /\ get_physical_sw_timer_counter)) =>
         /\ fault' = "none"
         /\ op'.status = SW_TIMER_STATUS_ERROR_PHYSICAL_TIMER_CALLBACKS_NOT_REGISTERED
         /\ head' = head /\ Chain' = Chain
         /\ time'[t] = time[t] /\ next'[t] = next[t] /\ prev'[t] = prev[t]]_vars

\* ------------------------------------------------------- the null handle
\* a step that is a Start, Stop or Update of the null handle
NullHandleStep ==
  /\ nops' = nops + 1
  /\ op'.name \in {"start", "stop", "update"} /\ op'.timer = NULL

\* C14: Start, Stop and Update of the null handle return the status
\* timer-not-exist, call neither adapter function and leave the head and
\* every timer record unchanged
C14_NullHandle ==
  [][NullHandleStep =>
       /\ fault' = "none"
       /\ op'.status = SW_TIMER_STATUS_ERROR_TIMER_NOT_EXIST
       /\ arms' = <<>> /\ counter' = counter /\ reload' = reload
       /\ UNCHANGED <<head, time, period, mode, callback, arg, next, prev>>]_vars

\* a Stop of the null handle has returned while a timer is pending
C14_Witness ==
  /\ op.name = "stop" /\ op.timer = NULL
  /\ op.status = SW_TIMER_STATUS_ERROR_TIMER_NOT_EXIST
  /\ head # NULL /\ counter # 0 /\ fault = "none"

\* ------------------------------------------------------ order among ties
\* t stands in the chain after every record whose time is not greater than
\* its own and before every record whose time is greater
PlacedStable(t) ==
  \A i \in 1..Len(Chain) :
    /\ i < Index(Chain, t) => ~Greater32(time[Chain[i]], time[t])
    /\ i > Index(Chain, t) => Greater32(time[Chain[i]], time[t])

\* a record that was pending before the step has the time t has after it
MeetsTie(t) ==
  \E u \in Timers \ {t} : InChain(u) /\ (InChain(u))' /\ time'[u] = time'[t]

\* the step is an interrupt in which the repeating head t is re-scheduled
Reschedules(t) ==
  irq /\ ~irq' /\ head = t /\ mode[t] = SW_TIMER_MODE_REPEATING

\* C15: a record placed into the chain, by Start or by the interrupt that
\* re-schedules a repeating timer, with a time equal to that of records
\* already pending stands after all of them and immediately before the
\* first record with a greater time, or at the tail
C15_StableAmongTies ==
  [][\A t \in Timers :
       (/\ (StartStep(t) /\ time[t] = 0) \/ Reschedules(t)
        /\ fault' = "none" /\ (InChain(t))' /\ MeetsTie(t))
       => (PlacedStable(t))']_vars

\* ------------------------------------------- the value the handler arms
\* the step is an interrupt that returns and leaves the chain non-empty
InterruptLeavesChain ==
  irq /\ ~irq' /\ fault' = "none" /\ head # NULL /\ head' # NULL

\* C16: an interrupt that fired the deadline `time` (the time of the head
\* when the handler is entered) and leaves the chain non-empty arms last
\* with new_head.time - time, the subtraction does not wrap, and the value
\* is the number of ticks from the fired deadline to the new head's deadline
C16_HandlerArmsDifference ==
  [][InterruptLeavesChain =>
       /\ arms' # <<>>
       /\ arms'[Len(arms')] = Sub32(time'[head'], time[head])
       /\ ~Less32(time'[head'], time[head])
       /\ arms'[Len(arms')] = HeadRemaining']_vars

\* ------------------------------------------------------------ the rebase
\* the delta sw_timer_start passes to sw_timer_update_relative_time for t
StartDelta(t) == Add32(Sub32(time[head], counter), period[t])

\* C17: the chain is rebased only when the timer's relative time plus the
\* delta reaches 0x80000000; for a smaller sum, as in a Start on a
\* non-empty chain, no other record's relative time changes and the timer's
\* own grows by exactly the delta
C17_RebaseOnlyAtHighBit ==
  [][\A t \in Timers :
       (/\ StartStep(t) /\ head # NULL
        /\ fault' = "none" /\ op'.status = SW_TIMER_STATUS_OK
        /\ Less32(Add32(time[t], StartDelta(t)), HIGH_BIT))
       => /\ \A u \in Timers \ {t} : time'[u] = time[u]
          /\ time'[t] = Add32(time[t], StartDelta(t))]_vars

\* ------------------------------------------- the run without the rebase
\* sw_timer_update_relative_time without the rebase pass: timer->time += delta
sw_timer_update_relative_time_no_rebase(s, timer, delta) ==
  IF ~Running(s) THEN s ELSE AddDelta(s, timer, delta)

\* sw_timer_start calling the update without the rebase pass
sw_timer_start_no_rebase(s, timer) ==
  IF timer = NULL THEN SetStatus(s, SW_TIMER_STATUS_ERROR_TIMER_NOT_EXIST)
  ELSE IF s.head = NULL
  THEN StartOnEmpty(SetTime(SetHead(s, timer), timer, s.period[timer]), timer)
  ELSE IF s.set_physical_timer /\ s.get_physical_sw_timer_counter
  THEN StartPlace(
         sw_timer_update_relative_time_no_rebase(s, timer,
           Add32(Sub32(s.time[s.head], PhysicalCounter(s)), s.period[timer])),
         timer)
  ELSE SetStatus(s, SW_TIMER_STATUS_ERROR_PHYSICAL_TIMER_CALLBACKS_NOT_REGISTERED)

\* C18: the rebase is invisible: a Start of a stopped record on a non-empty
\* chain passes to set_physical_timer the values it passes when the rebase
\* pass is not performed, and the record it places is due one period after
\* the Start
C18_RebaseInvisible ==
  [][\A t \in Timers :
       (/\ StartStep(t) /\ time[t] = 0 /\ head # NULL
        /\ fault' = "none" /\ op'.status = SW_TIMER_STATUS_OK)
       => /\ arms' = sw_timer_start_no_rebase(Current(TRUE), t).arms
          /\ (InChain(t))' => (Remaining(t))' = period[t]]_vars

\* ------------------------------------------- stop of a record not the head
\* C20: Stop of a pending record that is not the head calls no adapter
\* function, leaves the head and every other record's time, period, mode
\* and callback unchanged, links the predecessor to the successor (or makes
\* the predecessor the tail), and resets the record's time and both links
C20_StopNotHeadFrame ==
  [][\A t \in Timers :
       (StopStep(t) /\ InChain(t) /\ head # t) =>
         /\ fault' = "none" /\ op'.status = SW_TIMER_STATUS_OK
         /\ arms' = <<>> /\ counter' = counter /\ reload' = reload
         /\ head' = head
         /\ \A u \in Timers \ {t} :
              /\ time'[u] = time[u] /\ period'[u] = period[u]
              /\ mode'[u] = mode[u] /\ callback'[u] = callback[u]
         /\ \A u \in Timers \ {t} :
              /\ next[u] = t => next'[u] = next[t]
              /\ prev[u] = t => prev'[u] = prev[t]
         /\ time'[t] = 0 /\ next'[t] = NULL /\ prev'[t] = NULL]_vars

\* ------------------------------------------- callbacks that call the API
\* C19: every interrupt returns after invoking the callback of each record
\* at most once, also when the callbacks call Start or Stop; a single-shot
\* timer whose callback starts its own record is scheduled one period later
\* and does not fire again in the same interrupt
C19_HandlerReturnsOncePerRecord ==
  [][(irq /\ ~irq') =>
       /\ fault' = "none"
       /\ \A t \in Timers : Occurrences(fired', t) <= 1
       /\ \A t \in Timers :
            (/\ head = t /\ mode[t] = SW_TIMER_MODE_SINGLE_SHOT
             /\ callback[t] = CALLBACK_START /\ arg[t] = t)
            => ((InChain(t))' /\ (Remaining(t))' = period[t])]_vars

====
